---- MODULE Spec2Model ----
(***************************************************************************)
(* The BOF request ("bofreq") workflow of the datatracker, as exercised by *)
(* ietf/doc/tests_bofreq.py: creating a BOF request, editing its title,    *)
(* changing its state, changing its editors and submitting a new revision. *)
(*                                                                         *)
(* The test client's side (who logs in, what is posted, what the test      *)
(* remembers before a POST and compares afterwards, the outbox) is         *)
(* translated from tests_bofreq.py.  The views the requests reach          *)
(* in ietf.doc.views_bofreq are described by spec.md and are modelled     *)
(* from it.                                                                *)
(***************************************************************************)
EXTENDS Integers, Sequences, FiniteSets, TLC

VARIABLES
    documents,    \* Document table: name -> [title, rev, state]
    docalias,     \* DocAlias table: set of names
    docevents,    \* DocEvent table, oldest first: [doc, type, rev, desc, editors]
    bofreq_files, \* files under settings.BOFREQ_PATH: <<name, rev>> -> content
    outbox,       \* ietf.utils.mail.outbox since the last empty_outbox()
    saved,        \* what the test remembered just before the POST it checks
    r             \* the POST the test checks and its response

vars == <<documents, docalias, docevents, bofreq_files, outbox, saved, r>>

----------------------------------------------------------------------------
(* Bounds of the model.                                                    *)

\* rows the DocEvent table may hold
MaxEvents == 4

----------------------------------------------------------------------------
(* People and roles.                                                       *)

\* self.client without a login
Anonymous == "anonymous"

\* a role check that lets a user without a role through
PrivilegedAndNobody == {"secretary", "ad", "iab-member", "nobody"}

\* a role check that knows the secretary only
PrivilegedOnlySecretary == {"secretary"}

\* the role users the tests log in as: ('secretary', 'ad', 'iab-member')
Privileged == {"secretary", "ad", "iab-member"}

\* PersonFactory() people: they hold no role
Persons == {"plain", "nobody"}

\* the users the tests log in as
Usernames == {"secretary", "ad", "iab-member", "plain", "nobody"}

Clients == {Anonymous} \cup Usernames

----------------------------------------------------------------------------
(* Values the test client posts.                                           *)

\* a character outside ASCII, as in the title of line 280
NonAscii == "U+68EE"

\* a title check that lets every character through
AnyChars == {"a", "b", " ", "-", "U+68EE"}

\* the characters of the titles that are accepted
AsciiChars == {"a", "b", " ", "-"}

\* titles a new BOF request may carry: 'a', 'a b', 'a-b'
ValidTitles == {<<"a">>, <<"a", " ", "b">>, <<"a", "-", "b">>}

\* the titles posted to edit_title: '' and 'New title'
NewTitles == {<<>>, <<"b">>}

PostDict(title, submission, content, file) ==
    [title |-> title, bofreq_submission |-> submission,
     bofreq_content |-> content, bofreq_file |-> file]

\* the forms posted to new_bof_request: the two that succeed, typed in and
\* uploaded, for each title, and the ones with no title, no content, a title
\* of non-ASCII characters and no submission method
NewBofreqForms ==
    {PostDict(t, "enter", "some stuff", "") : t \in ValidTitles}
    \cup {PostDict(t, "upload", "", "some stuff") : t \in ValidTitles}
    \cup {PostDict(<<>>, "enter", "some stuff", ""),
          PostDict(<<"a">>, "enter", "", ""),
          PostDict(<<NonAscii>>, "enter", "some stuff", ""),
          PostDict(<<"a">>, "", "some stuff", "")}

UploadDict(submission, content, file) ==
    [bofreq_submission |-> submission, bofreq_content |-> content, bofreq_file |-> file]

\* the forms posted to submit: text typed in, a file uploaded, no content, no
\* file and no submission method
SubmitForms ==
    {UploadDict("enter", "# typed", ""),
     UploadDict("upload", "", "# uploaded"),
     UploadDict("enter", "", ""),
     UploadDict("upload", "", ""),
     UploadDict("", "# typed", "")}

\* State.objects.filter(type_id='bofreq'), by slug
States == {"proposed", "approved", "declined"}

\* the comment field of the change-state form; '' when it is left out
Comments == {"", "2309hnf"}

\* the sets of people posted as the new editors
EditorChoices == SUBSET Persons

----------------------------------------------------------------------------
(* Revisions: two-digit strings, kept as sequences of decimal digits.      *)

RECURSIVE int(_)
\* int(rev)
int(s) == IF s = <<>> THEN 0 ELSE 10 * int(SubSeq(s, 1, Len(s) - 1)) + s[Len(s)]

RECURSIVE Digits(_)
Digits(n) == IF n < 10 THEN <<n>> ELSE Append(Digits(n \div 10), n % 10)

\* '%d' % n: no padding
Fmt02Unpadded(n) == Digits(n)

\* '%02d' % n
Fmt02(n) == IF n < 10 THEN <<0, n>> ELSE Digits(n)

\* a revision counter that skips a number
NextRevSkips(rev) == Fmt02(int(rev) + 2)

\* '%02d' % (int(rev)+1): the revision a submission moves the document to
NextRev(rev) == Fmt02(int(rev) + 1)

\* f"bofreq-{title}": the spaces are kept
BofreqNameWithSpaces(title) == <<"bofreq-">> \o title

\* f"bofreq-{title}".replace(' ','-')
BofreqName(title) ==
    <<"bofreq-">> \o [i \in DOMAIN title |-> IF title[i] = " " THEN "-" ELSE title[i]]

\* the subject of another notification
TitleChangedSubject == "BOF Request title changed"

\* the subject the editors-changed mail must contain
EditorsChangedSubject == "BOF Request editors changed"

\* a new BOF request filed under a state the listing has no table for
InitialStateDraft == "draft"

\* the state of a new BOF request: its row is in #bofreqs-proposed
InitialState == "proposed"

\* approval left to the document's editor
SecretaryIsEditor == "plain"

\* approval left to the area director
SecretaryIsAd == "ad"

\* the only user the tests have set the state to approved
Secretary == "secretary"

----------------------------------------------------------------------------
(* Reading the database.                                                   *)

\* the rows of a DocEvent table that belong to one document, oldest first
EventsOf(events, name) == SelectSeq(events, LAMBDA e : e.doc = name)

\* doc.docevent_set.all()
DocEvents(name) == EventsOf(docevents, name)

\* an event lookup that returns the oldest event of that type
LatestEventOldest(name, type) ==
    LET es == SelectSeq(docevents, LAMBDA e : e.doc = name /\ e.type = type)
    IN IF es = <<>> THEN <<>> ELSE <<es[1]>>

\* doc.latest_event(type): the newest event of that type, as a sequence of
\* at most one event (latest_event returns None when there is none)
LatestEvent(name, type) ==
    LET es == SelectSeq(docevents, LAMBDA e : e.doc = name /\ e.type = type)
    IN IF es = <<>> THEN <<>> ELSE <<es[Len(es)]>>

\* an editor lookup that finds nobody
EditorsNone(name) == {}

\* an editor lookup that reads the oldest editor event
EditorsOldest(name) ==
    LET es == SelectSeq(docevents, LAMBDA e : e.doc = name /\ e.type = "changed_editors")
    IN IF es = <<>> THEN {} ELSE es[1].editors

\* doc.latest_event(BofreqEditorDocEvent).editors.all()
Editors(name) ==
    LET e == LatestEvent(name, "changed_editors")
    IN IF e = <<>> THEN {} ELSE e[1].editors

\* a text lookup that always reads the first revision's file
TextOfFirst(name) ==
    LET key == <<name, <<0, 0>> >>
    IN IF key \in DOMAIN bofreq_files THEN bofreq_files[key] ELSE ""

\* doc.text(): the file of the document's current revision
Text(name) ==
    LET key == <<name, documents[name].rev>>
    IN IF key \in DOMAIN bofreq_files THEN bofreq_files[key] ELSE ""

\* what the test holds on to before the POST it checks (title = doc.title,
\* rev = doc.rev, state = doc.get_state('bofreq'), previous_editors,
\* docevent_count): the tables as they are at that moment
Remember ==
    [documents |-> documents, docalias |-> docalias,
     docevents |-> docevents, bofreq_files |-> bofreq_files]

\* an event constructor that stores every event as an editor event
EventMistyped(name, type, rev, desc, editors) ==
    [doc |-> name, type |-> "changed_editors", rev |-> rev, desc |-> desc,
     editors |-> editors]

\* a DocEvent row; editors is set on editor events only
Event(name, type, rev, desc, editors) ==
    [doc |-> name, type |-> type, rev |-> rev, desc |-> desc, editors |-> editors]

----------------------------------------------------------------------------
(* The authorization gate (spec.md 4.1).                                   *)

\* edit title, change editors, submit revision
CanEdit(user, name) == user \in Privileged \/ user \in Editors(name)

\* change state: approved is for the secretary alone
CanSetState(user, name, new_state) ==
    IF new_state = "approved"
    THEN user = Secretary
    ELSE user \in Privileged \/ user \in Editors(name)

\* the text a submission form carries, '' when it carries none
SubmittedContent(post) ==
    IF post.bofreq_submission = "enter" THEN post.bofreq_content
    ELSE IF post.bofreq_submission = "upload" THEN post.bofreq_file
    ELSE ""

\* a form check that asks for a submission method only
UploadFormValidMethodOnly(post) == post.bofreq_submission \in {"enter", "upload"}

UploadFormValid(post) ==
    /\ post.bofreq_submission \in {"enter", "upload"}
    /\ SubmittedContent(post) # ""

TitleInUse(title) == \E n \in DOMAIN documents : documents[n].title = title

NewTitleValid(title) ==
    /\ title # <<>>
    /\ \A i \in DOMAIN title : title[i] \in AsciiChars
    /\ ~TitleInUse(title)
    /\ BofreqName(title) \notin DOMAIN documents

Put(f, k, v) == [x \in DOMAIN f \cup {k} |-> IF x = k THEN v ELSE f[x]]

\* the errors of the upload form: no submission method, or no content
UploadErrors(post) ==
    IF post.bofreq_submission \notin {"enter", "upload"} THEN {"bofreq_submission"}
    ELSE IF SubmittedContent(post) = "" THEN {"__all__"}
    ELSE {}

\* the fields a posted form is in error at
FormErrors(op, post) ==
    IF op = "new_bof_request"
    THEN (IF NewTitleValid(post.title) THEN {} ELSE {"title"}) \cup UploadErrors(post)
    ELSE IF op = "submit" THEN UploadErrors(post)
    ELSE IF op = "edit_title" THEN (IF post.title = <<>> THEN {"title"} ELSE {})
    ELSE {}

\* r = self.client.post(url, post): r.status_code and, on a page rendered
\* with 200, the form's errors (q('form div.has-error'))
Response(op, user, name, post, status) ==
    [op |-> op, user |-> user, name |-> name, post |-> post, status |-> status,
     errors |-> IF status = 200 THEN FormErrors(op, post) ELSE {}]

----------------------------------------------------------------------------
(* The pages that only read (GET).                                         *)

\* GET document_main, for the revision asked for (a sequence of at most one
\* rev: <<>> when the url names none): the version shown, its text, and
\* whether the page says it "is for an older version"
document_main(name, rev) ==
    IF rev = <<>> \/ rev = <<documents[name].rev>>
    THEN [version |-> documents[name].rev, text |-> Text(name), older |-> FALSE]
    ELSE [version |-> rev[1],
          text |-> IF <<name, rev[1]>> \in DOMAIN bofreq_files
                   THEN bofreq_files[<<name, rev[1]>>] ELSE "",
          older |-> TRUE]

\* GET bof_requests: one table per state, #bofreqs-<slug>, with a row for each
\* BOF request in that state
bof_requests == [s \in States |-> {n \in DOMAIN documents : documents[n].state = s}]

----------------------------------------------------------------------------
(* The test client.  A test arranges a state with requests it does not     *)
(* look at, then remembers the document, empties the outbox, sends the     *)
(* POST it checks and compares: that POST is `r`, and a run ends with it.  *)

NoRequest == Response("none", Anonymous, <<>>, <<>>, 0)

Init ==
    /\ documents = <<>>
    /\ docalias = {}
    /\ docevents = <<>>
    /\ bofreq_files = <<>>
    /\ outbox = <<>>
    /\ saved = Remember
    /\ r = NoRequest

\* empty_outbox(); r = self.client.post(url, post): the response and the mail
\* the request sent.  Mail of a request the test does not check is never read.
Answer(checked, op, user, name, post, status, mail) ==
    /\ IF checked
       THEN /\ saved' = Remember
            /\ r' = Response(op, user, name, post, status)
            /\ outbox' = mail
       ELSE /\ UNCHANGED <<saved, r>>
            /\ outbox' = <<>>

\* a request that is refused or re-renders its form
Refuse(checked, op, user, name, post, status) ==
    /\ UNCHANGED <<documents, docalias, docevents, bofreq_files>>
    /\ Answer(checked, op, user, name, post, status, <<>>)

\* POST new_bof_request
new_bof_request(checked, user, post) ==
    LET name == BofreqName(post.title)
        ok == NewTitleValid(post.title) /\ UploadFormValid(post)
    IN IF user = Anonymous
       THEN Refuse(checked, "new_bof_request", user, name, post, 302)
       ELSE IF ~ok
       THEN Refuse(checked, "new_bof_request", user, name, post, 200)
       ELSE /\ Len(docevents) + 2 <= MaxEvents
            /\ documents' = Put(documents, name,
                                [title |-> post.title, rev |-> <<0, 0>>, state |-> InitialState])
            /\ docalias' = docalias \cup {name}
            /\ docevents' = docevents \o
                  << Event(name, "new_revision", <<0, 0>>, "New revision available", {}),
                     Event(name, "changed_editors", <<0, 0>>, "Editors changed", {user}) >>
            /\ bofreq_files' = Put(bofreq_files, <<name, <<0, 0>> >>, SubmittedContent(post))
            /\ Answer(checked, "new_bof_request", user, name, post, 302,
                      << <<"New BOF Request">> \o name >>)

\* POST submit
submit(checked, user, name, post) ==
    IF user = Anonymous
    THEN Refuse(checked, "submit", user, name, post, 302)
    ELSE IF ~CanEdit(user, name)
    THEN Refuse(checked, "submit", user, name, post, 403)
    ELSE IF ~UploadFormValid(post)
    THEN Refuse(checked, "submit", user, name, post, 200)
    ELSE LET rev == NextRev(documents[name].rev)
         IN /\ Len(docevents) + 1 <= MaxEvents
            /\ documents' = [documents EXCEPT ![name].rev = rev]
            /\ docevents' = Append(docevents,
                  Event(name, "new_revision", rev, "New revision available", {}))
            /\ bofreq_files' = Put(bofreq_files, <<name, rev>>, SubmittedContent(post))
            /\ UNCHANGED docalias
            /\ Answer(checked, "submit", user, name, post, 302,
                      << <<"New BOF Request revision">> \o name >>)

\* POST edit_title
edit_title(checked, user, name, post) ==
    IF user = Anonymous
    THEN Refuse(checked, "edit_title", user, name, post, 302)
    ELSE IF ~CanEdit(user, name)
    THEN Refuse(checked, "edit_title", user, name, post, 403)
    ELSE IF post.title = <<>>
    THEN Refuse(checked, "edit_title", user, name, post, 200)
    ELSE /\ Len(docevents) + 1 <= MaxEvents
         /\ documents' = [documents EXCEPT ![name].title = post.title]
         /\ docevents' = Append(docevents,
               Event(name, "changed_title", documents[name].rev, "Title changed", {}))
         /\ UNCHANGED <<docalias, bofreq_files>>
         /\ Answer(checked, "edit_title", user, name, post, 302,
                   << <<"BOF Request title changed">> \o name >>)

\* POST change_state
change_state(checked, user, name, post) ==
    IF user = Anonymous
    THEN Refuse(checked, "change_state", user, name, post, 302)
    ELSE IF ~CanSetState(user, name, post.new_state)
    THEN Refuse(checked, "change_state", user, name, post, 403)
    ELSE LET rev == documents[name].rev
             change == << Event(name, "changed_state", rev, post.new_state, {}) >>
             comment == IF post.comment = "" THEN <<>>
                        ELSE << Event(name, "added_comment", rev, post.comment, {}) >>
         IN /\ Len(docevents) + Len(change) + Len(comment) <= MaxEvents
            /\ documents' = [documents EXCEPT ![name].state = post.new_state]
            /\ docevents' = docevents \o change \o comment
            /\ UNCHANGED <<docalias, bofreq_files>>
            /\ Answer(checked, "change_state", user, name, post, 302, <<>>)

\* POST change_editors
change_editors(checked, user, name, post) ==
    IF user = Anonymous
    THEN Refuse(checked, "change_editors", user, name, post, 302)
    ELSE IF ~CanEdit(user, name)
    THEN Refuse(checked, "change_editors", user, name, post, 403)
    ELSE /\ Len(docevents) + 1 <= MaxEvents
         /\ docevents' = Append(docevents,
               Event(name, "changed_editors", documents[name].rev, "Editors changed",
                     post.editors))
         /\ UNCHANGED <<documents, docalias, bofreq_files>>
         /\ Answer(checked, "change_editors", user, name, post, 302,
                   << <<EditorsChangedSubject>> \o name >>)

Next ==
    /\ r.op = "none"
    /\ \/ \E checked \in BOOLEAN, user \in Clients, post \in NewBofreqForms :
             new_bof_request(checked, user, post)
       \/ \E checked \in BOOLEAN, user \in Clients, name \in DOMAIN documents,
             post \in SubmitForms :
             submit(checked, user, name, post)
       \/ \E checked \in BOOLEAN, user \in Clients, name \in DOMAIN documents,
             title \in NewTitles :
             edit_title(checked, user, name, [title |-> title])
       \/ \E checked \in BOOLEAN, user \in Clients, name \in DOMAIN documents,
             s \in States, c \in Comments :
             change_state(checked, user, name, [new_state |-> s, comment |-> c])
       \/ \E checked \in BOOLEAN, user \in Clients, name \in DOMAIN documents,
             eds \in EditorChoices :
             change_editors(checked, user, name, [editors |-> eds])

Spec == Init /\ [][Next]_vars

----------------------------------------------------------------------------
(* The vocabulary of the properties: the document the checked POST was     *)
(* about, as the test remembered it and as it is now.                      *)

Checked == r.op # "none"

Existed == r.name \in DOMAIN saved.documents

Exists == r.name \in DOMAIN documents

Before == saved.documents[r.name]

After == documents[r.name]

EventsBefore == SelectSeq(saved.docevents, LAMBDA e : e.doc = r.name)

EventsAfter == SelectSeq(docevents, LAMBDA e : e.doc = r.name)

\* the editors of the newest editor-change event among `events`
EditorSet(events) ==
    LET at == {i \in DOMAIN events : events[i].type = "changed_editors"}
    IN IF at = {} THEN {}
       ELSE events[CHOOSE i \in at : \A j \in at : j <= i].editors

EditorsBefore == EditorSet(EventsBefore)

EditorsAfter == EditorSet(EventsAfter)

\* the text stored for a document's current revision
TextOf(docs, files) ==
    LET key == <<r.name, docs[r.name].rev>>
    IN IF key \in DOMAIN files THEN files[key] ELSE "(no such file)"

TextBefore == TextOf(saved.documents, saved.bofreq_files)

TextAfter == TextOf(documents, bofreq_files)

MutatingOps == {"edit_title", "change_state", "change_editors", "submit"}

HasRole(user) == user \in {"secretary", "ad", "iab-member"}

LoggedIn(user) == user # "anonymous"

\* neither privileged nor a current editor, or not logged in at all
Unauthorized == ~LoggedIn(r.user) \/ (~HasRole(r.user) /\ r.user \notin EditorsBefore)

Authorized == LoggedIn(r.user) /\ (HasRole(r.user) \/ r.user \in EditorsBefore)

\* the checked POST left the document and the outbox as they were
DocumentUntouched ==
    /\ Exists
    /\ After = Before
    /\ EditorsAfter = EditorsBefore
    /\ EventsAfter = EventsBefore
    /\ TextAfter = TextBefore
    /\ outbox = <<>>

\* the value of a two-digit revision
RevValue(rev) == 10 * rev[1] + rev[2]

\* C1: a POST to edit_title, change_state, change_editors or submit from an
\* anonymous client, or from a logged-in user who is neither a current editor
\* of the document nor secretary, ad or iab-member, leaves the document's
\* title, state, editors, revision, events and text and the outbox unchanged.
C1_UnauthorizedPostChangesNothing ==
    (r.op \in MutatingOps /\ Unauthorized) => DocumentUntouched

\* an unrelated logged-in user was refused on a document that has editors
C1_Witness ==
    /\ r.op = "change_editors"
    /\ r.user = "nobody"
    /\ r.status = 403
    /\ EditorsBefore = {"plain"}
    /\ r.post.editors = {"nobody"}

\* C2: a submission by secretary, ad, iab-member or a current editor, typed in
\* or uploaded, with content, is answered 302, moves the revision up by
\* exactly one (two digits), makes the document's text the submitted content,
\* adds exactly one event and sends exactly one mail.
C2_SubmitAddsOneRevision ==
    (/\ r.op = "submit"
     /\ Authorized
     /\ \/ r.post.bofreq_submission = "enter" /\ r.post.bofreq_content # ""
        \/ r.post.bofreq_submission = "upload" /\ r.post.bofreq_file # "")
    => /\ r.status = 302
       /\ Len(After.rev) = 2
       /\ RevValue(After.rev) = RevValue(Before.rev) + 1
       /\ TextAfter = IF r.post.bofreq_submission = "enter"
                      THEN r.post.bofreq_content ELSE r.post.bofreq_file
       /\ Len(EventsAfter) = Len(EventsBefore) + 1
       /\ Len(outbox) = 1

\* an editor without a role uploaded the second revision after the first
C2_Witness ==
    /\ r.op = "submit"
    /\ r.status = 302
    /\ r.user = "plain"
    /\ r.post.bofreq_submission = "upload"
    /\ Before.rev = <<0, 1>>
    /\ After.rev = <<0, 2>>

\* C3: a change_state POST asking for approved from a logged-in current
\* editor who holds no role is answered 403 and leaves the state as it was.
C3_EditorCannotApprove ==
    (/\ r.op = "change_state"
     /\ LoggedIn(r.user) /\ ~HasRole(r.user) /\ r.user \in EditorsBefore
     /\ r.post.new_state = "approved")
    => (r.status = 403 /\ After.state = Before.state)

\* the editor asked for approved on a proposed document and got 403
C3_Witness ==
    /\ r.op = "change_state"
    /\ r.user = "plain"
    /\ "plain" \in EditorsBefore
    /\ r.post.new_state = "approved"
    /\ Before.state = "proposed"
    /\ r.status = 403

\* C4: a document comes to be approved only by a change_state POST from the
\* secretary; a change_state POST asking for approved from anybody else never
\* leaves the document approved unless it already was.
C4_OnlySecretaryApproves ==
    /\ \A n \in DOMAIN documents :
          (Checked /\ documents[n].state = "approved"
             /\ (n \notin DOMAIN saved.documents \/ saved.documents[n].state # "approved"))
          => (r.op = "change_state" /\ r.name = n /\ r.user = "secretary"
                /\ r.post.new_state = "approved")
    /\ (r.op = "change_state" /\ r.post.new_state = "approved" /\ r.user # "secretary")
          => After.state = Before.state

\* the secretary approved a proposed document
C4_Witness ==
    /\ r.op = "change_state"
    /\ r.user = "secretary"
    /\ r.post.new_state = "approved"
    /\ Before.state = "proposed"
    /\ After.state = "approved"

\* C5: a change_state POST asking for declined from a logged-in current editor
\* who holds no role is answered 302 and the document's state is declined.
C5_EditorMayDecline ==
    (/\ r.op = "change_state"
     /\ LoggedIn(r.user) /\ ~HasRole(r.user) /\ r.user \in EditorsBefore
     /\ r.post.new_state = "declined")
    => (r.status = 302 /\ After.state = "declined")

\* the editor declined a proposed document
C5_Witness ==
    /\ r.op = "change_state"
    /\ r.user = "plain"
    /\ "plain" \in EditorsBefore
    /\ r.post.new_state = "declined"
    /\ Before.state = "proposed"
    /\ After.state = "declined"

\* the request got through: a logged-in client was answered with a redirect
\* (an anonymous client is redirected too, to the login page)
Succeeded == LoggedIn(r.user) /\ r.status = 302

\* the description of the newest added-comment event among `events`
LatestComment(events) ==
    LET at == {i \in DOMAIN events : events[i].type = "added_comment"}
    IN IF at = {} THEN "(no comment)"
       ELSE events[CHOOSE i \in at : \A j \in at : j <= i].desc

C6_Case ==
    /\ r.op = "change_state"
    /\ HasRole(r.user)
    /\ Before.state = "proposed"
    /\ r.post.comment # ""

C6_Effect ==
    /\ r.status = 302
    /\ After.state = r.post.new_state
    /\ Len(EventsAfter) = Len(EventsBefore) + 2
    /\ LatestComment(EventsAfter) = r.post.comment

\* C6, as claimed: a change_state POST with a new state and a comment from
\* secretary, ad or iab-member on a proposed document is answered 302, puts
\* the document in the requested state, adds exactly two events and leaves
\* the comment as the latest added-comment event.
C6_AnyPrivilegedAnyState == C6_Case => C6_Effect

\* C6, amended: the same, for the states the user may set, approved being
\* the secretary's alone.
C6_PrivilegedChangeStateWithComment ==
    (C6_Case /\ (r.post.new_state = "approved" => r.user = "secretary")) => C6_Effect

\* the area director declined a proposed document with a comment
C6_Witness ==
    /\ C6_Case
    /\ r.user = "ad"
    /\ r.post.new_state = "declined"
    /\ After.state = "declined"
    /\ Len(EventsAfter) = 4

\* C7: a change_editors POST with a set S of people from a current editor,
\* secretary, ad or iab-member is answered 302, makes the document's editors
\* exactly S, also when the acting editor is not in S, and sends exactly one
\* mail, whose subject contains "BOF Request editors changed".
C7_EditorsReplaced ==
    (r.op = "change_editors" /\ Authorized)
    => /\ r.status = 302
       /\ EditorsAfter = r.post.editors
       /\ Len(outbox) = 1
       /\ \E i \in DOMAIN outbox[1] : outbox[1][i] = "BOF Request editors changed"

\* the only editor handed the document over and is no editor any more
C7_Witness ==
    /\ r.op = "change_editors"
    /\ r.user = "plain"
    /\ EditorsBefore = {"plain"}
    /\ r.post.editors = {"nobody"}
    /\ EditorsAfter = {"nobody"}

IsPrefix(s, t) == Len(s) <= Len(t) /\ SubSeq(t, 1, Len(s)) = s

\* C8: no request removes or alters an event; a state change and an editor
\* change that got through are each recorded as a new event; the earlier
\* editor sets stay in the history; and the editors the views go by are those
\* of the newest editor-change event.
C8_HistoryAppendOnly ==
    /\ IsPrefix(saved.docevents, docevents)
    /\ (r.op = "change_state" /\ Succeeded)
          => \E i \in DOMAIN docevents :
                /\ i > Len(saved.docevents)
                /\ docevents[i].doc = r.name
                /\ docevents[i].type = "changed_state"
                /\ docevents[i].desc = r.post.new_state
    /\ (r.op = "change_editors" /\ Succeeded)
          => /\ Len(docevents) = Len(saved.docevents) + 1
             /\ docevents[Len(docevents)].doc = r.name
             /\ docevents[Len(docevents)].type = "changed_editors"
             /\ docevents[Len(docevents)].editors = r.post.editors
    /\ \A n \in DOMAIN documents :
          Editors(n) = EditorSet(SelectSeq(docevents, LAMBDA e : e.doc = n))

\* the second editor change of a document: the first two sets are still there
C8_Witness ==
    /\ r.op = "change_editors"
    /\ Succeeded
    /\ Len(EventsAfter) = 4
    /\ EventsAfter[2].editors = {"secretary"}
    /\ EventsAfter[3].type = "changed_editors"
    /\ EventsAfter[3].editors = {"plain"}
    /\ EventsAfter[4].editors = {"nobody"}

\* C9: a document's revision starts at 00, is always two digits, goes up by
\* exactly one with each submission that gets through and is left alone by
\* every other request: it is the number of submissions since the creation.
C9_RevisionCountsSubmissions ==
    /\ \A n \in DOMAIN documents :
          /\ Len(documents[n].rev) = 2
          /\ RevValue(documents[n].rev) + 1
                = Len(SelectSeq(docevents,
                                LAMBDA e : e.doc = n /\ e.type = "new_revision"))
    /\ (Checked /\ Exists /\ ~Existed) => After.rev = <<0, 0>>
    /\ (Checked /\ Existed)
          => RevValue(After.rev) =
                RevValue(Before.rev) + (IF r.op = "submit" /\ Succeeded THEN 1 ELSE 0)

\* the second submission to a document
C9_Witness ==
    /\ r.op = "submit"
    /\ Succeeded
    /\ Before.rev = <<0, 1>>
    /\ After.rev = <<0, 2>>
    /\ r.post.bofreq_submission = "enter"

\* `name` is "bofreq-" followed by `title` with its spaces made hyphens
IsNameFor(name, title) ==
    /\ Len(name) = Len(title) + 1
    /\ name[1] = "bofreq-"
    /\ \A i \in DOMAIN title : name[i + 1] = (IF title[i] = " " THEN "-" ELSE title[i])

Created == DOMAIN documents \ DOMAIN saved.documents

C10_Case ==
    /\ r.op = "new_bof_request"
    /\ LoggedIn(r.user)
    /\ r.post.title # <<>>
    /\ \A i \in DOMAIN r.post.title : r.post.title[i] \in {"a", "b", " ", "-"}
    /\ \A n \in DOMAIN saved.documents : saved.documents[n].title # r.post.title
    /\ \/ r.post.bofreq_submission = "enter" /\ r.post.bofreq_content # ""
       \/ r.post.bofreq_submission = "upload" /\ r.post.bofreq_file # ""

C10_Effect ==
    /\ r.status = 302
    /\ Cardinality(Created) = 1
    /\ \A n \in DOMAIN saved.documents :
          n \in DOMAIN documents /\ documents[n] = saved.documents[n]
    /\ \A n \in Created :
          /\ IsNameFor(n, r.post.title)
          /\ n \in docalias
          /\ documents[n].title = r.post.title
          /\ documents[n].rev = <<0, 0>>
          /\ documents[n].state = "proposed"
          /\ LET events == SelectSeq(docevents, LAMBDA e : e.doc = n)
                 revs == SelectSeq(events, LAMBDA e : e.type = "new_revision")
             IN /\ EditorSet(events) = {r.user}
                /\ revs # <<>>
                /\ revs[Len(revs)].rev = <<0, 0>>
          /\ <<n, <<0, 0>> >> \in DOMAIN bofreq_files
          /\ bofreq_files[<<n, <<0, 0>> >>] =
                (IF r.post.bofreq_submission = "enter"
                 THEN r.post.bofreq_content ELSE r.post.bofreq_file)
    /\ Len(outbox) = 1

\* C10, as claimed: a logged-in user's new_bof_request POST with a non-empty
\* ASCII title no BOF request has, a submission method and content is
\* answered 302 and creates exactly one document: named "bofreq-" and the
\* title with hyphens for spaces, with an alias of that name, the title,
\* revision 00, state proposed, the user as its only editor, a new-revision
\* event for 00 and the submitted text; and exactly one mail is sent.
C10_AnyUnusedTitle == C10_Case => C10_Effect

\* C10, amended: the same, when also no existing document has the name the
\* title makes.
C10_NewBofRequestCreatesDocument ==
    (C10_Case /\ \A n \in DOMAIN saved.documents : ~IsNameFor(n, r.post.title))
    => C10_Effect

\* a user without a role uploaded a second BOF request, 'a b'
C10_Witness ==
    /\ r.op = "new_bof_request"
    /\ r.user = "nobody"
    /\ r.status = 302
    /\ r.post.title = <<"a", " ", "b">>
    /\ r.post.bofreq_submission = "upload"
    /\ Cardinality(DOMAIN documents) = 2
    /\ <<"bofreq-", "a", "-", "b">> \in Created

\* the new_bof_request forms C11 is about: no title, no content, the title of
\* an existing BOF request, a title of non-ASCII characters only, no method
C11_Case ==
    /\ r.op = "new_bof_request"
    /\ \/ r.post.title = <<>>
       \/ r.post.bofreq_submission = "enter" /\ r.post.bofreq_content = ""
       \/ r.post.bofreq_submission = "upload" /\ r.post.bofreq_file = ""
       \/ \E n \in DOMAIN saved.documents : saved.documents[n].title = r.post.title
       \/ /\ r.post.title # <<>>
          /\ \A i \in DOMAIN r.post.title : r.post.title[i] \notin {"a", "b", " ", "-"}
       \/ r.post.bofreq_submission = ""

NothingCreated ==
    /\ documents = saved.documents
    /\ docalias = saved.docalias
    /\ docevents = saved.docevents
    /\ bofreq_files = saved.bofreq_files

\* C11, as claimed: such a form is always answered 200 with a form error and
\* never creates a document.
C11_InvalidFormAlways200 ==
    C11_Case => (r.status = 200 /\ r.errors # {} /\ NothingCreated)

\* C11, amended: such a form never creates a document, and from a logged-in
\* user it is answered 200 with a form error (an anonymous client is sent to
\* the login page with 302).
C11_InvalidNewBofRequestRejected ==
    C11_Case => /\ NothingCreated
                /\ LoggedIn(r.user) => (r.status = 200 /\ r.errors # {})

\* a logged-in user posted the title of an existing BOF request
C11_Witness ==
    /\ r.op = "new_bof_request"
    /\ r.user = "nobody"
    /\ r.post.title = <<"a", " ", "b">>
    /\ \E n \in DOMAIN saved.documents : saved.documents[n].title = <<"a", " ", "b">>
    /\ r.status = 200
    /\ "title" \in r.errors

\* C12: an edit_title POST with a non-empty title from secretary, ad,
\* iab-member or a current editor is answered 302, makes the posted title the
\* document's title, adds exactly one event and sends exactly one mail.
C12_EditTitle ==
    (r.op = "edit_title" /\ Authorized /\ r.post.title # <<>>)
    => /\ r.status = 302
       /\ After.title = r.post.title
       /\ Len(EventsAfter) = Len(EventsBefore) + 1
       /\ Len(outbox) = 1

\* an editor without a role gave the document 'a' the title 'b'
C12_Witness ==
    /\ r.op = "edit_title"
    /\ r.user = "plain"
    /\ "plain" \in EditorsBefore
    /\ Before.title = <<"a">>
    /\ After.title = <<"b">>
    /\ r.status = 302

\* C13: a submission without content (nothing typed in, or no file) from an
\* authorized user is answered with the form again (200) and a form error;
\* revision, text and events stay as they were and no mail is sent.
C13_EmptySubmissionRejected ==
    (/\ r.op = "submit"
     /\ Authorized
     /\ \/ r.post.bofreq_submission = "enter" /\ r.post.bofreq_content = ""
        \/ r.post.bofreq_submission = "upload" /\ r.post.bofreq_file = "")
    => /\ r.status = 200
       /\ r.errors # {}
       /\ After.rev = Before.rev
       /\ TextAfter = TextBefore
       /\ EventsAfter = EventsBefore
       /\ bofreq_files = saved.bofreq_files
       /\ outbox = <<>>

\* the secretary submitted nothing to a document at revision 01
C13_Witness ==
    /\ r.op = "submit"
    /\ r.user = "secretary"
    /\ r.post.bofreq_submission = "enter"
    /\ r.post.bofreq_content = ""
    /\ Before.rev = <<0, 1>>
    /\ r.status = 200

\* a logged-in user without role or editorship
Unrelated == LoggedIn(r.user) /\ ~HasRole(r.user) /\ r.user \notin EditorsBefore

\* a current editor without a role
PlainEditor == LoggedIn(r.user) /\ ~HasRole(r.user) /\ r.user \in EditorsBefore

C14_AnonymousRedirected ==
    (r.op \in MutatingOps /\ ~LoggedIn(r.user)) => r.status = 302

\* C14, as claimed: on edit_title, change_state, change_editors and submit an
\* anonymous POST is always answered 302, and a POST from a logged-in user
\* without permission, an unrelated user or an editor changing the state, is
\* always answered 403.
C14_EditorNeverChangesState ==
    /\ C14_AnonymousRedirected
    /\ (r.op \in MutatingOps /\ Unrelated) => r.status = 403
    /\ (r.op = "change_state" /\ PlainEditor) => r.status = 403

\* C14, amended: the same, the editor lacking permission when the state asked
\* for is approved.
C14_DenialByAuthentication ==
    /\ C14_AnonymousRedirected
    /\ (r.op \in MutatingOps /\ Unrelated) => r.status = 403
    /\ (r.op = "change_state" /\ PlainEditor /\ r.post.new_state = "approved")
          => r.status = 403

\* an anonymous client was redirected on a document an unrelated user exists for
C14_Witness ==
    /\ r.op = "submit"
    /\ ~LoggedIn(r.user)
    /\ r.status = 302
    /\ r.post.bofreq_content = "# typed"
    /\ EditorsBefore = {"plain"}

\* the tables of the listing a document has a row in
TablesWith(n) == {s \in DOMAIN bof_requests : n \in bof_requests[s]}

RECURSIVE RowsIn(_)
\* the rows of the tables of the states `slugs`, added up
RowsIn(slugs) ==
    IF slugs = {} THEN 0
    ELSE LET s == CHOOSE x \in slugs : TRUE
         IN Cardinality(bof_requests[s]) + RowsIn(slugs \ {s})

EarlierRevs(n) ==
    {rev \in {0} \X (0..9) : RevValue(rev) < RevValue(documents[n].rev)}

\* C17: text is kept per revision. Every earlier revision of a document still
\* has its file; the main page asked for an earlier revision shows that
\* revision's text, as it was before the last request, with the older-version
\* notice; asked for no revision it shows the current revision's text
\* without the notice.
C17_EarlierRevisionsRetrievable ==
    \A n \in DOMAIN documents :
       /\ \A rev \in EarlierRevs(n) :
             /\ <<n, rev>> \in DOMAIN bofreq_files
             /\ document_main(n, <<rev>>).version = rev
             /\ document_main(n, <<rev>>).text = bofreq_files[<<n, rev>>]
             /\ document_main(n, <<rev>>).older
             /\ (Checked /\ <<n, rev>> \in DOMAIN saved.bofreq_files)
                   => document_main(n, <<rev>>).text = saved.bofreq_files[<<n, rev>>]
       /\ <<n, documents[n].rev>> \in DOMAIN bofreq_files
       /\ document_main(n, <<>>).version = documents[n].rev
       /\ document_main(n, <<>>).text = bofreq_files[<<n, documents[n].rev>>]
       /\ ~document_main(n, <<>>).older
       /\ (Checked /\ r.op = "submit" /\ Succeeded /\ n = r.name)
             => /\ document_main(n, <<Before.rev>>).text = TextBefore
                /\ document_main(n, <<Before.rev>>).older

\* a third revision was submitted; revision 00 is still shown with its own
\* text, which differs from the current one
C17_Witness ==
    /\ r.op = "submit"
    /\ Succeeded
    /\ After.rev = <<0, 2>>
    /\ document_main(r.name, << <<0, 0>> >>).older
    /\ document_main(r.name, << <<0, 0>> >>).text # document_main(r.name, <<>>).text
    /\ document_main(r.name, << <<0, 1>> >>).text # document_main(r.name, <<>>).text
    /\ document_main(r.name, << <<0, 0>> >>).text # document_main(r.name, << <<0, 1>> >>).text

\* C18: a mutating request that succeeded changed only its own part of the
\* document: edit_title left state, editors, rev and text; change_state left
\* title, editors, rev and text; change_editors left title, state, rev and
\* text; submit left title, state and editors; the document kept its name,
\* and no other document was created, dropped or changed.
C18_FrameOfMutatingRequests ==
    (r.op \in MutatingOps /\ Succeeded /\ Existed)
    => /\ Exists
       /\ DOMAIN documents = DOMAIN saved.documents
       /\ docalias = saved.docalias
       /\ \A n \in DOMAIN documents \ {r.name} : documents[n] = saved.documents[n]
       /\ r.op # "edit_title" => After.title = Before.title
       /\ r.op # "change_state" => After.state = Before.state
       /\ r.op # "change_editors" => EditorsAfter = EditorsBefore
       /\ r.op # "submit" => /\ After.rev = Before.rev
                             /\ TextAfter = TextBefore
                             /\ bofreq_files = saved.bofreq_files

\* the title of a document at revision 01 was changed by its editor, who
\* stayed its editor
C18_Witness ==
    /\ r.op = "edit_title"
    /\ Succeeded
    /\ After.title # Before.title
    /\ After.rev = <<0, 1>>
    /\ After.state = "proposed"
    /\ r.user \in EditorsAfter
    /\ TextAfter \in {"# typed", "# uploaded"}

\* C19: in every state reached through the web requests each document has a
\* new-revision event, and the latest one carries the document's current
\* rev; a submission that succeeded put that event last in the history.
C19_LatestNewRevisionIsCurrent ==
    /\ \A n \in DOMAIN documents :
          /\ LatestEvent(n, "new_revision") # <<>>
          /\ LatestEvent(n, "new_revision")[1].rev = documents[n].rev
    /\ (r.op = "submit" /\ Succeeded /\ Existed)
          => /\ EventsAfter[Len(EventsAfter)].type = "new_revision"
             /\ EventsAfter[Len(EventsAfter)].rev = After.rev

\* after creation and two submissions the latest of three new-revision
\* events is the one for revision 02
C19_Witness ==
    /\ r.op = "submit"
    /\ Succeeded
    /\ Before.rev = <<0, 1>>
    /\ LatestEvent(r.name, "new_revision") # <<>>
    /\ LatestEvent(r.name, "new_revision")[1].rev = <<0, 2>>
    /\ Len(SelectSeq(EventsAfter, LAMBDA e : e.type = "new_revision")) = 3

====
